---- MODULE Spec2Model ----
(***************************************************************************)
(* Model of the Snake game core: Snake (Snake.h / Snake.cpp), Food         *)
(* (Food.h / Food.cpp) and the Game orchestrator (Game.h / Game.cpp).      *)
(*                                                                         *)
(* Three specifications share the variables:                               *)
(*   Spec      - the Game object driven by ProcessInput / Update           *)
(*   SnakeSpec - one Snake object driven through its public methods        *)
(*   FoodSpec  - one call of Food::GenerateNewPosition, one loop           *)
(*               iteration per step                                        *)
(***************************************************************************)
EXTENDS Integers, Sequences, FiniteSets, TLC

VARIABLES
    snake,      \* the Snake object: body, currentDirection, lastMovedDirection, segmentSize, growNextMove
    food,       \* Food::pos
    State,      \* Game::State
    pc,         \* position inside Food::GenerateNewPosition (FoodSpec), "none" elsewhere
    lastOp,     \* history: <<name of the operation performed last, its argument or outcome>>
    applied,    \* history: direction applied by the most recent effective Move ("STOPPED" if none)
    ret,        \* history: <<value returned by the last const query>>, << >> if none
    ctorArgs,   \* history: <<startX, startY>> given to the constructor of the current Snake
    growCalls,  \* history: number of Grow() calls since the last effective Move
    foodHits    \* history: number of times Update has found the head on the food in this life

vars == <<snake, food, State, pc, lastOp, applied, ret, ctorArgs, growCalls, foodHits>>

-----------------------------------------------------------------------------
(* Bounds of the model *)

\* half of the board width, in cells (main.cpp uses 800 = 2 * 20 * 20)
HalfW == 3
\* half of the board height, in cells (main.cpp uses 600 = 2 * 15 * 20)
HalfH == 1
\* the Game specification stops growing the snake at this length, except for the one
\* move that carries the head of a growing snake into the cell of its tail
MaxLen == 4
\* the Snake specification keeps the head within this many cells of the constructed body
Arena == 2
\* the Snake specification stops growing the snake at this length
MaxSnakeLen == 4
\* largest number of repeated Grow() calls compared
MaxGrows == 2
\* the Food specification draws its snake bodies from this many ticks of play
FoodDepth == 2
\* longest body handed to GetHeadPosition() in HeadQuerySpec
MaxBody == 2
\* the bodies of HeadQuerySpec lie on the cells 0 .. HeadGrid in each axis
HeadGrid == 2
\* most cells left free by the long bodies of FairFoodSpec
MaxFree == 5

-----------------------------------------------------------------------------
(* Program constants *)

\* default argument of Snake::Snake
DefaultSegmentSize == 20

Width == 2 * HalfW * DefaultSegmentSize
Height == 2 * HalfH * DefaultSegmentSize

Cardinal == {"UP", "DOWN", "LEFT", "RIGHT"}
Direction == Cardinal \cup {"STOPPED"}

Position(x, y) == [x |-> x, y |-> y]

-----------------------------------------------------------------------------
(* std::deque operations used by the code *)

push_front(q, p) == <<p>> \o q
pop_back(q) == SubSeq(q, 1, Len(q) - 1)
front(q) == q[1]

-----------------------------------------------------------------------------
(* Snake *)

\* a constructor that pushes two segments only
SnakeCtorTwoSegments(startX, startY, segSize) ==
    LET b0 == << >>
        b1 == push_front(b0, Position(startX, startY))
        b2 == push_front(b1, Position(startX - segSize, startY))
    IN  [body |-> b2,
         currentDirection |-> "STOPPED",
         lastMovedDirection |-> "STOPPED",
         segmentSize |-> segSize,
         growNextMove |-> FALSE]

SnakeCtor(startX, startY, segSize) ==
    LET b0 == << >>
        b1 == push_front(b0, Position(startX, startY))
        b2 == push_front(b1, Position(startX - segSize, startY))
        b3 == push_front(b2, Position(startX - 2 * segSize, startY))
    IN  [body |-> b3,
         currentDirection |-> "STOPPED",
         lastMovedDirection |-> "STOPPED",
         segmentSize |-> segSize,
         growNextMove |-> FALSE]

\* a switch whose LEFT case also changes y
OffsetLeftDiagonal(p, dir, segSize) ==
    CASE dir = "UP"    -> Position(p.x, p.y - segSize)
      [] dir = "DOWN"  -> Position(p.x, p.y + segSize)
      [] dir = "LEFT"  -> Position(p.x - segSize, p.y - segSize)
      [] dir = "RIGHT" -> Position(p.x + segSize, p.y)
      [] OTHER         -> p

\* the switch of Snake::Move
Offset(p, dir, segSize) ==
    CASE dir = "UP"    -> Position(p.x, p.y - segSize)
      [] dir = "DOWN"  -> Position(p.x, p.y + segSize)
      [] dir = "LEFT"  -> Position(p.x - segSize, p.y)
      [] dir = "RIGHT" -> Position(p.x + segSize, p.y)
      [] OTHER         -> p

\* Move without the early return for STOPPED
MoveWhenStopped(s) ==
    LET newHead == Offset(front(s.body), s.currentDirection, s.segmentSize)
        pushed == push_front(s.body, newHead)
    IN  [s EXCEPT !.body = IF s.growNextMove THEN pushed ELSE pop_back(pushed),
                  !.growNextMove = FALSE,
                  !.lastMovedDirection = s.currentDirection]

\* Move that leaves growNextMove set
MoveKeepsGrowFlag(s) ==
    IF s.currentDirection = "STOPPED" THEN s
    ELSE LET newHead == Offset(front(s.body), s.currentDirection, s.segmentSize)
             pushed == push_front(s.body, newHead)
         IN  [s EXCEPT !.body = IF s.growNextMove THEN pushed ELSE pop_back(pushed),
                       !.lastMovedDirection = s.currentDirection]

\* Move without the assignment to lastMovedDirection
MoveKeepsLastMoved(s) ==
    IF s.currentDirection = "STOPPED" THEN s
    ELSE LET newHead == Offset(front(s.body), s.currentDirection, s.segmentSize)
             pushed == push_front(s.body, newHead)
         IN  [s EXCEPT !.body = IF s.growNextMove THEN pushed ELSE pop_back(pushed),
                       !.growNextMove = FALSE]

\* Move that never removes the tail
MoveNeverPops(s) ==
    IF s.currentDirection = "STOPPED" THEN s
    ELSE LET newHead == Offset(front(s.body), s.currentDirection, s.segmentSize)
             pushed == push_front(s.body, newHead)
         IN  [s EXCEPT !.body = pushed,
                       !.growNextMove = FALSE,
                       !.lastMovedDirection = s.currentDirection]

\* Move that removes the tail even when growNextMove is set
MoveAlwaysPops(s) ==
    IF s.currentDirection = "STOPPED" THEN s
    ELSE LET newHead == Offset(front(s.body), s.currentDirection, s.segmentSize)
             pushed == push_front(s.body, newHead)
         IN  [s EXCEPT !.body = pop_back(pushed),
                       !.growNextMove = FALSE,
                       !.lastMovedDirection = s.currentDirection]

Move(s) ==
    IF s.currentDirection = "STOPPED" THEN s
    ELSE LET newHead == Offset(front(s.body), s.currentDirection, s.segmentSize)
             pushed == push_front(s.body, newHead)
         IN  [s EXCEPT !.body = IF s.growNextMove THEN pushed ELSE pop_back(pushed),
                       !.growNextMove = FALSE,
                       !.lastMovedDirection = s.currentDirection]

\* Grow that flips the flag instead of setting it
GrowToggles(s) == [s EXCEPT !.growNextMove = ~s.growNextMove]

Grow(s) == [s EXCEPT !.growNextMove = TRUE]

\* the condition of the first if of Snake::SetDirection
IsReversal(newDir, lastDir) ==
    \/ newDir = "UP" /\ lastDir = "DOWN"
    \/ newDir = "DOWN" /\ lastDir = "UP"
    \/ newDir = "LEFT" /\ lastDir = "RIGHT"
    \/ newDir = "RIGHT" /\ lastDir = "LEFT"

\* SetDirection that assigns lastMovedDirection on every accepted request
SetDirectionAlwaysSetsLastMoved(s, newDir) ==
    IF /\ IsReversal(newDir, s.lastMovedDirection)
       /\ Len(s.body) > 1
       /\ s.lastMovedDirection # "STOPPED"
    THEN s
    ELSE [s EXCEPT !.currentDirection = newDir, !.lastMovedDirection = newDir]

\* SetDirection without the final assignment to lastMovedDirection
SetDirectionKeepsLastMoved(s, newDir) ==
    IF /\ IsReversal(newDir, s.lastMovedDirection)
       /\ Len(s.body) > 1
       /\ s.lastMovedDirection # "STOPPED"
    THEN s
    ELSE [s EXCEPT !.currentDirection = newDir]

SetDirection(s, newDir) ==
    IF /\ IsReversal(newDir, s.lastMovedDirection)
       /\ Len(s.body) > 1
       /\ s.lastMovedDirection # "STOPPED"
    THEN s
    ELSE LET last1 == IF s.currentDirection = "STOPPED" /\ Len(s.body) = 1
                      THEN "STOPPED" ELSE s.lastMovedDirection
         IN  [s EXCEPT !.currentDirection = newDir,
                       !.lastMovedDirection = IF last1 = "STOPPED" THEN newDir ELSE last1]

GetDirection(s) == s.currentDirection
GetBody(s) == s.body
GetSegmentSize(s) == s.segmentSize

GetHeadPosition(s) ==
    IF s.body = << >> THEN Position(-1, -1) ELSE front(s.body)

\* the loop of CheckSelfCollision stopping one segment short of the tail
RECURSIVE SelfCollisionSkipsTail(_, _, _)
SelfCollisionSkipsTail(body, head, i) ==
    IF i > Len(body) - 1 THEN FALSE
    ELSE IF body[i].x = head.x /\ body[i].y = head.y THEN TRUE
    ELSE SelfCollisionSkipsTail(body, head, i + 1)

\* the for loop of Snake::CheckSelfCollision, from index i (1-based here)
RECURSIVE SelfCollisionFrom(_, _, _)
SelfCollisionFrom(body, head, i) ==
    IF i > Len(body) THEN FALSE
    ELSE IF body[i].x = head.x /\ body[i].y = head.y THEN TRUE
    ELSE SelfCollisionFrom(body, head, i + 1)

\* a collision test whose loop ends after its first comparison
CheckSelfCollisionNeckOnly(s) ==
    IF Len(s.body) < 2 THEN FALSE
    ELSE s.body[2].x = front(s.body).x /\ s.body[2].y = front(s.body).y

CheckSelfCollision(s) ==
    IF Len(s.body) < 2 THEN FALSE
    ELSE SelfCollisionFrom(s.body, front(s.body), 2)

-----------------------------------------------------------------------------
(* Food *)

\* a sampler whose x distribution ends at boardWidth / segmentSize, one column too far
CandidatesPastRightEdge(boardWidth, boardHeight, segSize) ==
    { Position(cx * segSize, cy * segSize) :
        cx \in 0 .. (boardWidth \div segSize),
        cy \in 0 .. ((boardHeight \div segSize) - 1) }

\* a sampler whose x distribution starts at 1 and so never draws the first column
CandidatesSkipFirstColumn(boardWidth, boardHeight, segSize) ==
    { Position(cx * segSize, cy * segSize) :
        cx \in 1 .. ((boardWidth \div segSize) - 1),
        cy \in 0 .. ((boardHeight \div segSize) - 1) }

\* the values distX(rng) * segmentSize, distY(rng) * segmentSize can take
Candidates(boardWidth, boardHeight, segSize) ==
    { Position(cx * segSize, cy * segSize) :
        cx \in 0 .. ((boardWidth \div segSize) - 1),
        cy \in 0 .. ((boardHeight \div segSize) - 1) }

\* a search that compares the candidate with the head only
OverlapsHeadOnly(p, snakeBody) ==
    snakeBody # << >> /\ snakeBody[1].x = p.x /\ snakeBody[1].y = p.y

\* find_if that stops one segment short of the end of snakeBody
OverlapsSkipsTail(p, snakeBody) ==
    \E i \in 1 .. (Len(snakeBody) - 1) : snakeBody[i].x = p.x /\ snakeBody[i].y = p.y

\* std::find_if over snakeBody with the lambda of GenerateNewPosition
Overlaps(p, snakeBody) ==
    \E i \in 1 .. Len(snakeBody) : snakeBody[i].x = p.x /\ snakeBody[i].y = p.y

\* a generator that returns the first sample, whatever the body
GenerateAnyPosition(snakeBody, boardWidth, boardHeight, segSize) ==
    Candidates(boardWidth, boardHeight, segSize)

\* the positions Food::GenerateNewPosition can leave in pos when it returns
GenerateNewPosition(snakeBody, boardWidth, boardHeight, segSize) ==
    { p \in Candidates(boardWidth, boardHeight, segSize) : ~Overlaps(p, snakeBody) }

-----------------------------------------------------------------------------
(* SnakeSpec: one Snake object, its public methods called in any order *)

StartXs == {0, 400}
StartYs == {300}
SegSizes == {10, 20}

\* the model keeps the head of the snake within Arena cells of the cells of the constructed body
InArena(p, startX, startY, segSize) ==
    /\ p.x - startX \in (-(Arena + 2) * segSize) .. (Arena * segSize)
    /\ p.y - startY \in (-Arena * segSize) .. (Arena * segSize)

SnakeInit ==
    /\ \E startX \in StartXs, startY \in StartYs, segSize \in SegSizes :
          /\ snake = SnakeCtor(startX, startY, segSize)
          /\ ctorArgs = <<startX, startY>>
    /\ food = Position(0, 0)
    /\ State = "GAME_ACTIVE"
    /\ pc = "none"
    /\ lastOp = <<"Snake", "-">>
    /\ applied = "STOPPED"
    /\ ret = << >>
    /\ growCalls = 0
    /\ foodHits = 0

CallSetDirection ==
    \E newDir \in Direction :
        /\ snake' = SetDirection(snake, newDir)
        /\ lastOp' = <<"SetDirection", newDir>>
        /\ ret' = << >>
        /\ UNCHANGED <<food, State, pc, applied, ctorArgs, growCalls, foodHits>>

CallMove ==
    /\ snake.growNextMove => Len(snake.body) < MaxSnakeLen
    /\ InArena(Offset(front(snake.body), snake.currentDirection, snake.segmentSize),
               ctorArgs[1], ctorArgs[2], snake.segmentSize)
    /\ snake' = Move(snake)
    /\ applied' = IF snake.currentDirection = "STOPPED" THEN applied ELSE snake.currentDirection
    /\ growCalls' = IF snake.currentDirection = "STOPPED" THEN growCalls ELSE 0
    /\ lastOp' = <<"Move", "-">>
    /\ ret' = << >>
    /\ UNCHANGED <<food, State, pc, ctorArgs, foodHits>>

CallGrow ==
    /\ growCalls < MaxGrows
    /\ snake' = Grow(snake)
    /\ growCalls' = growCalls + 1
    /\ lastOp' = <<"Grow", "-">>
    /\ ret' = << >>
    /\ UNCHANGED <<food, State, pc, applied, ctorArgs, foodHits>>

CallCheckSelfCollision ==
    /\ ret' = <<CheckSelfCollision(snake)>>
    /\ lastOp' = <<"CheckSelfCollision", "-">>
    /\ UNCHANGED <<snake, food, State, pc, applied, ctorArgs, growCalls, foodHits>>

SnakeNext ==
    \/ CallSetDirection
    \/ CallMove
    \/ CallGrow
    \/ CallCheckSelfCollision

SnakeSpec == SnakeInit /\ [][SnakeNext]_vars

-----------------------------------------------------------------------------
(* Game *)

\* v > w with the int v converted to GLuint, as in the comparisons of Game::Update:
\* a negative v becomes v + 2^32, which exceeds every board dimension below 2^31
GreaterAsUnsigned(v, w) == IF v < 0 THEN TRUE ELSE v > w

\* the direction inputs read by the GAME_ACTIVE branch of Game::ProcessInput:
\* Keys[W] || Keys[UP], Keys[S] || Keys[DOWN], Keys[A] || Keys[LEFT], Keys[D] || Keys[RIGHT].
\* The GAME_OVER branch reads Keys[R] alone.
DirectionKeys == {"UP", "DOWN", "LEFT", "RIGHT"}

\* a wall test that lacks the comparison head.x < 0
HitsWallIgnoresLeft(head, segSize) ==
    \/ GreaterAsUnsigned(head.x + segSize, Width)
    \/ head.y < 0
    \/ GreaterAsUnsigned(head.y + segSize, Height)

\* the wall test of Game::Update
HitsWall(head, segSize) ==
    \/ head.x < 0
    \/ GreaterAsUnsigned(head.x + segSize, Width)
    \/ head.y < 0
    \/ GreaterAsUnsigned(head.y + segSize, Height)

\* the snake built by Game::Init and Game::ResetGame
NewPlayerSnake == SnakeCtor(Width \div 2, Height \div 2, DefaultSegmentSize)

\* the four ifs, with a stop when no direction key is held
ForwardKeysReleaseStops(s, held) ==
    LET s1 == IF "UP" \in held THEN SetDirection(s, "UP") ELSE s
        s2 == IF "DOWN" \in held THEN SetDirection(s1, "DOWN") ELSE s1
        s3 == IF "LEFT" \in held THEN SetDirection(s2, "LEFT") ELSE s2
        s4 == IF "RIGHT" \in held THEN SetDirection(s3, "RIGHT") ELSE s3
    IN  IF held = {} THEN SetDirection(s, "STOPPED") ELSE s4

\* the four ifs taken in the order RIGHT, LEFT, DOWN, UP
ForwardKeysRightFirst(s, held) ==
    LET s1 == IF "RIGHT" \in held THEN SetDirection(s, "RIGHT") ELSE s
        s2 == IF "LEFT" \in held THEN SetDirection(s1, "LEFT") ELSE s1
        s3 == IF "DOWN" \in held THEN SetDirection(s2, "DOWN") ELSE s2
    IN  IF "UP" \in held THEN SetDirection(s3, "UP") ELSE s3

\* the four ifs of the GAME_ACTIVE branch of Game::ProcessInput, in order
ForwardKeys(s, held) ==
    LET s1 == IF "UP" \in held THEN SetDirection(s, "UP") ELSE s
        s2 == IF "DOWN" \in held THEN SetDirection(s1, "DOWN") ELSE s1
        s3 == IF "LEFT" \in held THEN SetDirection(s2, "LEFT") ELSE s2
        s4 == IF "RIGHT" \in held THEN SetDirection(s3, "RIGHT") ELSE s3
    IN  s4

\* Game::Init, after the constructor Game::Game
Init ==
    /\ snake = NewPlayerSnake
    /\ food \in GenerateNewPosition(GetBody(NewPlayerSnake), Width, Height,
                                    GetSegmentSize(NewPlayerSnake))
    /\ State = "GAME_ACTIVE"
    /\ pc = "none"
    /\ lastOp = <<"Init", "-">>
    /\ applied = "STOPPED"
    /\ ret = << >>
    /\ ctorArgs = <<Width \div 2, Height \div 2>>
    /\ growCalls = 0
    /\ foodHits = 0

\* a reset whose new snake inherits the directions of the old one
ResetGameKeepsDirection ==
    /\ snake' = [NewPlayerSnake EXCEPT
                     !.currentDirection = snake.currentDirection,
                     !.lastMovedDirection = snake.lastMovedDirection]
    /\ food' \in GenerateNewPosition(GetBody(NewPlayerSnake), Width, Height,
                                     GetSegmentSize(NewPlayerSnake))
    /\ State' = "GAME_ACTIVE"
    /\ applied' = "STOPPED"
    /\ ctorArgs' = <<Width \div 2, Height \div 2>>
    /\ growCalls' = 0
    /\ foodHits' = 0

\* Game::ResetGame
ResetGame ==
    /\ snake' = NewPlayerSnake
    /\ food' \in GenerateNewPosition(GetBody(NewPlayerSnake), Width, Height,
                                     GetSegmentSize(NewPlayerSnake))
    /\ State' = "GAME_ACTIVE"
    /\ applied' = "STOPPED"
    /\ ctorArgs' = <<Width \div 2, Height \div 2>>
    /\ growCalls' = 0
    /\ foodHits' = 0

\* a ProcessInput whose GAME_OVER branch restarts without reading Keys[R]
ProcessInputAnyKeyRestarts ==
    /\ IF State = "GAME_ACTIVE"
       THEN \E held \in SUBSET DirectionKeys :
                /\ snake' = ForwardKeys(snake, held)
                /\ lastOp' = <<"ProcessInput", "-">>
                /\ UNCHANGED <<food, State, applied, ctorArgs, growCalls, foodHits>>
       ELSE /\ ResetGame
            /\ lastOp' = <<"ProcessInput", "-">>
    /\ UNCHANGED <<pc, ret>>

ProcessInput ==
    /\ IF State = "GAME_ACTIVE"
       THEN \E held \in SUBSET DirectionKeys :
                /\ snake' = ForwardKeys(snake, held)
                /\ lastOp' = <<"ProcessInput", "-">>
                /\ UNCHANGED <<food, State, applied, ctorArgs, growCalls, foodHits>>
       ELSE IF State = "GAME_OVER"
       THEN \E keyR \in BOOLEAN :
                IF keyR
                THEN /\ ResetGame
                     /\ lastOp' = <<"ProcessInput", "ResetGame">>
                ELSE /\ lastOp' = <<"ProcessInput", "-">>
                     /\ UNCHANGED <<snake, food, State, applied, ctorArgs, growCalls, foodHits>>
       ELSE /\ lastOp' = <<"ProcessInput", "-">>
            /\ UNCHANGED <<snake, food, State, applied, ctorArgs, growCalls, foodHits>>
    /\ UNCHANGED <<pc, ret>>

\* the bound on growth: a snake with growth pending moves only while it is shorter than
\* MaxLen, or when the move takes its head into the cell of its tail
GrowthWithinBound(s) ==
    s.growNextMove =>
        \/ Len(s.body) < MaxLen
        \/ Offset(front(s.body), s.currentDirection, s.segmentSize) = s.body[Len(s.body)]

\* the body of Game::Update after its state test: move, food, self collision, walls
UpdateTick ==
    LET s1 == Move(snake)
        hit == /\ GetHeadPosition(s1).x = food.x
               /\ GetHeadPosition(s1).y = food.y
        s2 == IF hit THEN Grow(s1) ELSE s1
        st1 == IF CheckSelfCollision(s2) THEN "GAME_OVER" ELSE State
        st2 == IF HitsWall(GetHeadPosition(s2), GetSegmentSize(s2))
               THEN "GAME_OVER" ELSE st1
    IN  /\ snake' = s2
        /\ food' \in IF hit
                     THEN GenerateNewPosition(GetBody(s1), Width, Height,
                                              GetSegmentSize(s1))
                     ELSE {food}
        /\ State' = st2
        /\ applied' = IF snake.currentDirection = "STOPPED"
                      THEN applied ELSE snake.currentDirection
        /\ growCalls' = IF hit THEN 1
                        ELSE IF snake.currentDirection = "STOPPED" THEN growCalls
                        ELSE 0
        /\ foodHits' = IF hit THEN foodHits + 1 ELSE foodHits
        /\ lastOp' = <<"Update", IF hit THEN "food" ELSE "-">>

\* an Update that runs its tick whatever the state
UpdateWhateverState ==
    /\ GrowthWithinBound(snake)
    /\ UpdateTick
    /\ UNCHANGED <<pc, ret, ctorArgs>>

Update ==
    /\ State = "GAME_ACTIVE" => GrowthWithinBound(snake)
    /\ IF State # "GAME_ACTIVE"
       THEN /\ lastOp' = <<"Update", "inactive">>
            /\ UNCHANGED <<snake, food, State, applied, growCalls, foodHits>>
       ELSE UpdateTick
    /\ UNCHANGED <<pc, ret, ctorArgs>>

\* main calls ProcessInput and Update in turn, once per frame; the model allows them
\* in any order, which includes that schedule. ResetGame runs only from ProcessInput.
Next ==
    \/ ProcessInput
    \/ Update

Spec == Init /\ [][Next]_vars

-----------------------------------------------------------------------------
(* FoodSpec: one call of Food::GenerateNewPosition(snakeBody) *)

\* the snakes the game can hold after at most n ticks of input and movement
RECURSIVE SnakesAfter(_)
SnakesAfter(n) ==
    IF n = 0 THEN {NewPlayerSnake}
    ELSE LET prev == SnakesAfter(n - 1)
         IN  prev \cup { Move(SetDirection(s, d)) : s \in prev, d \in Cardinal }
                  \cup { Move(SetDirection(Grow(s), d)) : s \in prev, d \in Cardinal }

OnBoard(body) ==
    \A i \in 1 .. Len(body) : ~HitsWall(body[i], DefaultSegmentSize)

FoodInit ==
    /\ snake \in { s \in SnakesAfter(FoodDepth) : OnBoard(s.body) }
    /\ food \in Candidates(Width, Height, DefaultSegmentSize)
    /\ State = "GAME_ACTIVE"
    /\ pc = "while"
    /\ lastOp = <<"GenerateNewPosition", "-">>
    /\ applied = "STOPPED"
    /\ ret = << >>
    /\ ctorArgs = <<Width \div 2, Height \div 2>>
    /\ growCalls = 0
    /\ foodHits = 0

\* one iteration of the while loop: draw a candidate, look for it in snakeBody
FoodSample ==
    /\ pc = "while"
    /\ food' \in Candidates(Width, Height, DefaultSegmentSize)
    /\ pc' = IF ~Overlaps(food', snake.body) THEN "positionOK" ELSE "while"
    /\ UNCHANGED <<snake, State, lastOp, applied, ret, ctorArgs, growCalls, foodHits>>

\* the loop test with positionOK set: the function returns
FoodReturn ==
    /\ pc = "positionOK"
    /\ pc' = "returned"
    /\ UNCHANGED <<snake, food, State, lastOp, applied, ret, ctorArgs, growCalls, foodHits>>

FoodNext ==
    \/ FoodSample
    \/ FoodReturn

FoodSpec == FoodInit /\ [][FoodNext]_vars

-----------------------------------------------------------------------------
(* FairFoodSpec: the same call with a fair random source, for bodies from three
   segments up to the whole board *)

\* the first n cells of a path that covers the board row by row, turning at the walls
Serpentine(n) ==
    LET cols == Width \div DefaultSegmentSize
    IN  [ k \in 1 .. n |->
            LET row == (k - 1) \div cols
                col == (k - 1) % cols
            IN  Position((IF row % 2 = 0 THEN col ELSE cols - 1 - col) * DefaultSegmentSize,
                         row * DefaultSegmentSize) ]

\* snakes lying on that path: on the whole of it, and on all but its first 1 .. MaxFree
\* cells
LongSnakes ==
    LET n == (Width \div DefaultSegmentSize) * (Height \div DefaultSegmentSize)
    IN  { [NewPlayerSnake EXCEPT !.body = SubSeq(Serpentine(n), k, n)] :
              k \in 1 .. MaxFree + 1 }

FairFoodInit ==
    /\ snake \in {NewPlayerSnake} \cup LongSnakes
    /\ food \in Candidates(Width, Height, DefaultSegmentSize)
    /\ State = "GAME_ACTIVE"
    /\ pc = "while"
    /\ lastOp = <<"GenerateNewPosition", "-">>
    /\ applied = "STOPPED"
    /\ ret = << >>
    /\ ctorArgs = <<Width \div 2, Height \div 2>>
    /\ growCalls = 0
    /\ foodHits = 0

\* a fair random source: a cell that can be drawn again and again is drawn in the end
FairSampling ==
    \A p \in Candidates(Width, Height, DefaultSegmentSize) :
        WF_vars(FoodSample /\ food' = p)

FairFoodSpec ==
    /\ FairFoodInit
    /\ [][FoodNext]_vars
    /\ FairSampling
    /\ WF_vars(FoodReturn)

-----------------------------------------------------------------------------
(* HeadQuerySpec: one call of Snake::GetHeadPosition() on a deque of any length *)

HeadCells ==
    { Position(i * DefaultSegmentSize, j * DefaultSegmentSize) :
          i \in 0 .. HeadGrid, j \in 0 .. HeadGrid }

\* the deques of at most n cells, the empty one included
RECURSIVE BodiesUpTo(_)
BodiesUpTo(n) ==
    IF n = 0 THEN { << >> }
    ELSE LET shorter == BodiesUpTo(n - 1)
         IN  shorter \cup { push_front(b, p) : b \in shorter, p \in HeadCells }

HeadQueryInit ==
    /\ snake \in { [body |-> b,
                    segmentSize |-> DefaultSegmentSize,
                    currentDirection |-> "STOPPED",
                    lastMovedDirection |-> "STOPPED",
                    growNextMove |-> FALSE] : b \in BodiesUpTo(MaxBody) }
    /\ food = Position(0, 0)
    /\ State = "GAME_ACTIVE"
    /\ pc = "none"
    /\ lastOp = <<"Snake", "-">>
    /\ applied = "STOPPED"
    /\ ret = << >>
    /\ ctorArgs = <<0, 0>>
    /\ growCalls = 0
    /\ foodHits = 0

CallGetHeadPosition ==
    /\ lastOp[1] # "GetHeadPosition"
    /\ ret' = <<GetHeadPosition(snake)>>
    /\ lastOp' = <<"GetHeadPosition", "-">>
    /\ UNCHANGED <<snake, food, State, pc, applied, ctorArgs, growCalls, foodHits>>

HeadQueryNext == CallGetHeadPosition

HeadQuerySpec == HeadQueryInit /\ [][HeadQueryNext]_vars

-----------------------------------------------------------------------------
(* Vocabulary of the claims, stated independently of the operators above *)

OppositeOf(d) ==
    CASE d = "UP"    -> "DOWN"
      [] d = "DOWN"  -> "UP"
      [] d = "LEFT"  -> "RIGHT"
      [] d = "RIGHT" -> "LEFT"
      [] OTHER       -> "none"

\* the displacement of one cell in direction d
Step(d, segSize) ==
    CASE d = "UP"    -> Position(0, -segSize)
      [] d = "DOWN"  -> Position(0, segSize)
      [] d = "LEFT"  -> Position(-segSize, 0)
      [] d = "RIGHT" -> Position(segSize, 0)
      [] OTHER       -> Position(0, 0)

Plus(p, q) == Position(p.x + q.x, p.y + q.y)

Distinct(body) ==
    \A i, j \in 1 .. Len(body) : i # j => body[i] # body[j]

-----------------------------------------------------------------------------
(* C1 *)

\* C1: a freshly constructed Snake has exactly 3 segments on one horizontal line, its
\* head (front of body) at (startX, startY), the segments at index 1 and 2 at
\* (startX - segmentSize, startY) and (startX - 2*segmentSize, startY);
\* currentDirection = lastMovedDirection = STOPPED and growNextMove = FALSE.
C1_FreshSnakeHeadAtStart ==
    lastOp[1] = "Snake" =>
        LET sx == ctorArgs[1]
            sy == ctorArgs[2]
            sz == snake.segmentSize
        IN  /\ Len(snake.body) = 3
            /\ \A i \in 1 .. 3 : snake.body[i].y = sy
            /\ GetHeadPosition(snake) = Position(sx, sy)
            /\ snake.body[1] = Position(sx, sy)
            /\ snake.body[2] = Position(sx - sz, sy)
            /\ snake.body[3] = Position(sx - 2 * sz, sy)
            /\ snake.currentDirection = "STOPPED"
            /\ snake.lastMovedDirection = "STOPPED"
            /\ snake.growNextMove = FALSE

-----------------------------------------------------------------------------
(* C2 *)

\* C2: SetDirection(requested) leaves the whole snake unchanged when requested is the
\* opposite of lastMovedDirection, the body has more than one segment and
\* lastMovedDirection is not STOPPED; in every other case currentDirection becomes
\* requested, lastMovedDirection becomes requested if it was STOPPED and stays as it
\* was otherwise; the body, segmentSize and growNextMove never change.
C2_SetDirectionArbitration ==
    [][ lastOp'[1] = "SetDirection" =>
          LET requested == lastOp'[2]
              rejected == /\ requested = OppositeOf(snake.lastMovedDirection)
                          /\ Len(snake.body) > 1
                          /\ snake.lastMovedDirection # "STOPPED"
          IN  /\ rejected => snake' = snake
              /\ ~rejected =>
                    /\ snake'.currentDirection = requested
                    /\ snake'.lastMovedDirection =
                          IF snake.lastMovedDirection = "STOPPED"
                          THEN requested ELSE snake.lastMovedDirection
              /\ snake'.body = snake.body
              /\ snake'.growNextMove = snake.growNextMove
              /\ snake'.segmentSize = snake.segmentSize
      ]_vars

\* a reversal was requested after the snake had moved, and it was refused
C2_Witness ==
    /\ lastOp[1] = "SetDirection"
    /\ applied \in Cardinal
    /\ lastOp[2] = OppositeOf(snake.lastMovedDirection)
    /\ snake.currentDirection # lastOp[2]

-----------------------------------------------------------------------------
(* C3 *)

\* C3: for any interleaving of SetDirection and Move on a snake with more than one
\* segment, currentDirection is never the opposite of lastMovedDirection and the
\* direction applied by a Move is never the opposite of the direction applied by the
\* previous effective Move; after a Move to the RIGHT, SetDirection(LEFT) leaves the
\* direction RIGHT and the next Move advances the head one more segmentSize to the right.
C3_NoReversal ==
    /\ [](Len(snake.body) > 1 =>
            snake.currentDirection # OppositeOf(snake.lastMovedDirection))
    /\ [][ (lastOp'[1] = "Move" /\ snake.currentDirection \in Cardinal) =>
              /\ applied' = snake.currentDirection
              /\ applied' # OppositeOf(applied) ]_vars
    /\ []((lastOp[1] = "Move" /\ snake.currentDirection = "RIGHT") =>
            LET s1 == SetDirection(snake, "LEFT")
                s2 == Move(s1)
            IN  /\ s1.currentDirection = "RIGHT"
                /\ front(s2.body) = Plus(front(snake.body), Position(snake.segmentSize, 0)))
    /\ [][ ( /\ lastOp[1] = "Move" /\ snake.currentDirection = "RIGHT"
            /\ lastOp' = <<"SetDirection", "LEFT">> ) =>
              snake'.currentDirection = "RIGHT" ]_vars

\* SetDirection(LEFT) was called right after a move to the right and the direction is still RIGHT
C3_Witness ==
    /\ lastOp = <<"SetDirection", "LEFT">>
    /\ applied = "RIGHT"
    /\ snake.currentDirection = "RIGHT"
    /\ snake.lastMovedDirection = "RIGHT"

-----------------------------------------------------------------------------
(* C4 *)

\* C4: in every run of the game from Init or Reset, whatever the inputs, no Move of an
\* ACTIVE Update places the new head on the cell the segment at index 1 (the neck)
\* occupied before that Move.
C4_NeverIntoNeck ==
    [][ (lastOp'[1] = "Update" /\ State = "GAME_ACTIVE"
            /\ snake.currentDirection \in Cardinal) =>
          front(snake'.body) # snake.body[2] ]_vars

-----------------------------------------------------------------------------
(* C5 *)

\* C5: for a snake freshly constructed at (sx, sy) with segment size s, SetDirection(RIGHT)
\* followed by one Move() yields the body [(sx+s, sy), (sx, sy), (sx-s, sy)], and that
\* body does not intersect itself.
C5_FirstMoveRight ==
    [][ ( /\ lastOp = <<"SetDirection", "RIGHT">>
          /\ snake = SetDirection(SnakeCtor(ctorArgs[1], ctorArgs[2], snake.segmentSize), "RIGHT")
          /\ lastOp'[1] = "Move" ) =>
          LET sx == ctorArgs[1]
              sy == ctorArgs[2]
              sz == snake.segmentSize
          IN  /\ snake'.body = << Position(sx + sz, sy), Position(sx, sy), Position(sx - sz, sy) >>
              /\ Distinct(snake'.body)
      ]_vars

-----------------------------------------------------------------------------
(* C6 *)

\* C6: a Move() made while currentDirection is a cardinal direction and no growth is
\* pending keeps the body length, keeps currentDirection, and puts the new head exactly
\* one segmentSize from the previous head along that direction and 0 along the other axis.
C6_StraightMove ==
    [][ ( /\ lastOp'[1] = "Move"
          /\ snake.currentDirection \in Cardinal
          /\ ~snake.growNextMove ) =>
          /\ Len(snake'.body) = Len(snake.body)
          /\ snake'.currentDirection = snake.currentDirection
          /\ front(snake'.body) =
                Plus(front(snake.body), Step(snake.currentDirection, snake.segmentSize))
          /\ SubSeq(snake'.body, 2, Len(snake'.body)) =
                SubSeq(snake.body, 1, Len(snake.body) - 1)
      ]_vars

\* three moves in a row to the RIGHT without growth: the body is a straight line
C6_Witness ==
    /\ lastOp[1] = "Move"
    /\ snake.currentDirection = "RIGHT"
    /\ Len(snake.body) = 3
    /\ snake.body[1].x = snake.body[2].x + snake.segmentSize
    /\ snake.body[2].x = snake.body[3].x + snake.segmentSize
    /\ snake.body[1].y = snake.body[3].y

-----------------------------------------------------------------------------
(* C7 *)

\* C7: Grow() by itself changes neither the body nor the directions; with a cardinal
\* currentDirection, the first Move() after a Grow() makes the body exactly one segment
\* longer, the old tail is still the last segment at the same position, and
\* growNextMove is FALSE afterwards.
C7_GrowThenMove ==
    /\ [][ lastOp'[1] = "Grow" =>
              /\ snake'.body = snake.body
              /\ snake'.currentDirection = snake.currentDirection
              /\ snake'.lastMovedDirection = snake.lastMovedDirection
              /\ snake'.growNextMove = TRUE ]_vars
    /\ [][ ( /\ growCalls >= 1
             /\ lastOp'[1] = "Move"
             /\ snake.currentDirection \in Cardinal ) =>
              /\ Len(snake'.body) = Len(snake.body) + 1
              /\ snake'.body[Len(snake'.body)] = snake.body[Len(snake.body)]
              /\ SubSeq(snake'.body, 2, Len(snake'.body)) = snake.body
              /\ snake'.growNextMove = FALSE ]_vars

\* a move has just grown the snake: four segments, the flag cleared
C7_Witness ==
    /\ lastOp[1] = "Move"
    /\ Len(snake.body) = 4
    /\ snake.growNextMove = FALSE
    /\ snake.currentDirection \in Cardinal
    /\ growCalls = 0

-----------------------------------------------------------------------------
(* C8 *)

RECURSIVE GrowTimes(_, _)
GrowTimes(s, n) == IF n = 0 THEN s ELSE GrowTimes(Grow(s), n - 1)

\* C8: for every snake state and every n >= 1, Grow() called n times and then Move()
\* gives the same snake state as Grow() once and then Move(): the length grows by 1
\* (by 0 when the snake is STOPPED), not by n.
C8_GrowIdempotent ==
    /\ \A n \in 1 .. (MaxGrows + 1) :
          /\ GrowTimes(snake, n) = Grow(snake)
          /\ Move(GrowTimes(snake, n)) = Move(Grow(snake))
          /\ Len(Move(GrowTimes(snake, n)).body) =
                Len(snake.body) + (IF snake.currentDirection \in Cardinal THEN 1 ELSE 0)
    /\ growCalls >= 1 => snake.growNextMove

\* Grow() has been called at least twice since the last move
C8_Witness ==
    /\ lastOp[1] = "Grow"
    /\ growCalls >= 2
    /\ snake.growNextMove
    /\ snake.currentDirection \in Cardinal

-----------------------------------------------------------------------------
(* C9 *)

\* what the claim says CheckSelfCollision() returns for a body
HeadOnBody(body) ==
    /\ Len(body) >= 2
    /\ \E i \in 2 .. Len(body) : body[i] = body[1]

\* C9: CheckSelfCollision() returns FALSE when the body has fewer than 2 segments and
\* otherwise TRUE iff some segment at index >= 1 equals the head; so it is FALSE for
\* every body of pairwise distinct segments and TRUE after a Move() that leaves the
\* head on another segment; and it changes nothing.
C9_SelfCollision ==
    /\ [] /\ CheckSelfCollision(snake) = HeadOnBody(snake.body)
          /\ Distinct(snake.body) => ~CheckSelfCollision(snake)
          /\ ~CheckSelfCollision([snake EXCEPT !.body = SubSeq(snake.body, 1, 1)])
          /\ ~CheckSelfCollision([snake EXCEPT !.body = << >>])
          /\ lastOp[1] = "CheckSelfCollision" => ret = <<HeadOnBody(snake.body)>>
    /\ [][ lastOp'[1] = "CheckSelfCollision" => snake' = snake ]_vars
    /\ [][ ( /\ lastOp'[1] = "Move"
             /\ \E i \in 2 .. Len(snake'.body) : snake'.body[i] = snake'.body[1] ) =>
              CheckSelfCollision(snake') ]_vars

\* the head sits on the tail and CheckSelfCollision() has returned TRUE
C9_Witness ==
    /\ lastOp[1] = "CheckSelfCollision"
    /\ ret = <<TRUE>>
    /\ snake.body[1] = snake.body[Len(snake.body)]

-----------------------------------------------------------------------------
(* C10 *)

\* C10: when GenerateNewPosition(snakeBody) returns, the food position is grid-aligned,
\* lies inside the board (0 <= x <= (boardWidth/segmentSize - 1)*segmentSize, likewise
\* for y) and differs from every segment of snakeBody.
C10_FoodPlacement ==
    pc = "returned" =>
        /\ food.x % DefaultSegmentSize = 0
        /\ food.y % DefaultSegmentSize = 0
        /\ 0 <= food.x
        /\ food.x <= ((Width \div DefaultSegmentSize) - 1) * DefaultSegmentSize
        /\ 0 <= food.y
        /\ food.y <= ((Height \div DefaultSegmentSize) - 1) * DefaultSegmentSize
        /\ \A i \in 1 .. Len(snake.body) : snake.body[i] # food

\* the call has returned for a body of four segments
C10_Witness ==
    /\ pc = "returned"
    /\ Len(snake.body) = 4

-----------------------------------------------------------------------------
(* C11 *)

\* the segment whose top-left corner is head does not lie wholly inside the board
OutOfBounds(head, segSize, boardWidth, boardHeight) ==
    \/ head.x < 0
    \/ head.y < 0
    \/ head.x + segSize > boardWidth
    \/ head.y + segSize > boardHeight

\* C11: after an Update executed in state ACTIVE the state is OVER if and only if, after
\* the move and the food handling of that tick, the head lies on another segment or is
\* out of bounds (head.x < 0, head.y < 0, head.x + segmentSize > boardWidth or
\* head.y + segmentSize > boardHeight); otherwise the state stays ACTIVE.  In particular
\* moving LEFT from x = 0 puts the head at x = -segmentSize and ends the game in that Update.
C11_GameOverIffCollision ==
    [][ (lastOp'[1] = "Update" /\ State = "GAME_ACTIVE") =>
            /\ State' \in {"GAME_ACTIVE", "GAME_OVER"}
            /\ State' = "GAME_OVER" <=>
                   \/ HeadOnBody(snake'.body)
                   \/ OutOfBounds(front(snake'.body), snake'.segmentSize, Width, Height)
            /\ (front(snake.body).x = 0 /\ snake.currentDirection = "LEFT") =>
                   /\ front(snake'.body).x = -snake.segmentSize
                   /\ State' = "GAME_OVER" ]_vars

\* an Update has moved the head LEFT from x = 0 to x = -segmentSize and the game is over
C11_Witness ==
    /\ lastOp[1] = "Update"
    /\ applied = "LEFT"
    /\ front(snake.body).x = -snake.segmentSize
    /\ ~HeadOnBody(snake.body)
    /\ State = "GAME_OVER"

-----------------------------------------------------------------------------
(* C12 *)

\* C12: Update is a no-op unless the state is ACTIVE: an Update called while the state is
\* OVER leaves the snake body, both directions, growNextMove, the food position and the
\* state unchanged, and so does any number of such calls.
C12_UpdateNoOpUnlessActive ==
    [][ (lastOp'[1] = "Update" /\ State # "GAME_ACTIVE") =>
            /\ snake'.body = snake.body
            /\ snake'.currentDirection = snake.currentDirection
            /\ snake'.lastMovedDirection = snake.lastMovedDirection
            /\ snake'.growNextMove = snake.growNextMove
            /\ food' = food
            /\ State' = State ]_vars

\* an Update has run while the game was over, the snake still heading somewhere
C12_Witness ==
    /\ lastOp = <<"Update", "inactive">>
    /\ State = "GAME_OVER"
    /\ snake.currentDirection \in Cardinal

-----------------------------------------------------------------------------
(* C13 *)

\* C13: OVER is terminal until an explicit restart: from an OVER state no Update call and
\* no ProcessInput call without the Restart input changes the state, the snake or the
\* food (direction inputs are ignored while OVER); the state returns to ACTIVE only by a
\* ProcessInput call with Restart asserted while the state is OVER; and a ProcessInput
\* call while the state is ACTIVE, whatever it carries, does not reset the game.
C13_OverUntilRestart ==
    /\ [][ (State = "GAME_OVER" /\ lastOp' # <<"ProcessInput", "ResetGame">>) =>
               /\ State' = "GAME_OVER"
               /\ snake' = snake
               /\ food' = food ]_vars
    /\ [][ (State = "GAME_OVER" /\ State' = "GAME_ACTIVE") =>
               lastOp' = <<"ProcessInput", "ResetGame">> ]_vars
    /\ [][ lastOp' = <<"ProcessInput", "ResetGame">> =>
               (State = "GAME_OVER" /\ State' = "GAME_ACTIVE") ]_vars
    /\ [][ (State = "GAME_ACTIVE" /\ lastOp'[1] = "ProcessInput") =>
               /\ State' = "GAME_ACTIVE"
               /\ snake'.body = snake.body
               /\ snake'.growNextMove = snake.growNextMove
               /\ food' = food ]_vars

\* a ProcessInput without Restart has run on a finished game whose snake has grown
C13_Witness ==
    /\ lastOp = <<"ProcessInput", "-">>
    /\ State = "GAME_OVER"
    /\ Len(snake.body) > 3

-----------------------------------------------------------------------------
(* C14 *)

\* the cells of a body
Cells(body) == { body[i] : i \in 1 .. Len(body) }

\* the state the claim gives for a new life: ACTIVE, a snake constructed from
\* (Width/2, Height/2), its three segments in a row from the board centre leftwards,
\* standing still with no growth pending, and a food cell of the grid that is not a cell
\* of the body
FreshLife ==
    /\ State = "GAME_ACTIVE"
    /\ ctorArgs = <<Width \div 2, Height \div 2>>
    /\ Len(snake.body) = 3
    /\ Cells(snake.body) = { Position(Width \div 2 - k * DefaultSegmentSize, Height \div 2) :
                                k \in 0 .. 2 }
    /\ \A i \in 1 .. 3 : snake.body[i].y = Height \div 2
    /\ \A i \in 1 .. 2 : snake.body[i + 1].x - snake.body[i].x \in
                              {snake.segmentSize, -snake.segmentSize}
    /\ snake.body[1] # snake.body[3]
    /\ snake.segmentSize = DefaultSegmentSize
    /\ snake.currentDirection = "STOPPED"
    /\ snake.lastMovedDirection = "STOPPED"
    /\ snake.growNextMove = FALSE
    /\ food \notin Cells(snake.body)
    /\ food.x % DefaultSegmentSize = 0
    /\ food.y % DefaultSegmentSize = 0
    /\ 0 <= food.x /\ food.x + DefaultSegmentSize <= Width
    /\ 0 <= food.y /\ food.y + DefaultSegmentSize <= Height

\* C14: after Init() and after every Reset(), whatever the previous life was (length,
\* directions, pending growth, food position), the game is in the same fresh state:
\* ACTIVE, a newly constructed 3-segment snake at the board centre (Width/2, Height/2)
\* with both directions STOPPED and growNextMove false, and a food position generated
\* disjoint from that body; the snake is the same after every reset.
C14_FreshAfterInitAndReset ==
    (lastOp[1] = "Init" \/ lastOp = <<"ProcessInput", "ResetGame">>) => FreshLife

\* a reset has just run: the game is active again, the new snake stands still and the
\* food lies off its row
C14_Witness ==
    /\ lastOp = <<"ProcessInput", "ResetGame">>
    /\ State = "GAME_ACTIVE"
    /\ snake.currentDirection = "STOPPED"
    /\ food.y # Height \div 2

-----------------------------------------------------------------------------
(* C15 *)

-----------------------------------------------------------------------------
(* C16 *)

\* the held direction key that comes last in the order UP, DOWN, LEFT, RIGHT
LastHeld(held) ==
    IF "RIGHT" \in held THEN "RIGHT"
    ELSE IF "LEFT" \in held THEN "LEFT"
    ELSE IF "DOWN" \in held THEN "DOWN"
    ELSE IF "UP" \in held THEN "UP"
    ELSE "none"

\* the held direction key that comes first in that order
FirstHeld(held) ==
    IF "UP" \in held THEN "UP"
    ELSE IF "DOWN" \in held THEN "DOWN"
    ELSE IF "LEFT" \in held THEN "LEFT"
    ELSE IF "RIGHT" \in held THEN "RIGHT"
    ELSE "none"

\* the held keys that SetDirection accepts in one ProcessInput call: all but the reverse
\* of the direction last moved in, which for a snake that has not moved yet is the first
\* held key
AcceptedKeys(s, held) ==
    LET ref == IF s.lastMovedDirection # "STOPPED"
               THEN s.lastMovedDirection ELSE FirstHeld(held)
    IN  { d \in held : d # OppositeOf(ref) }

\* C16 as stated: in one ProcessInput call in state ACTIVE, for every set of held
\* direction keys, currentDirection after the call is the direction of the last held key
\* in the order UP, DOWN, LEFT, RIGHT.
C16_LastHeldKeyWins ==
    [][ (lastOp'[1] = "ProcessInput" /\ State = "GAME_ACTIVE") =>
            \A held \in SUBSET DirectionKeys :
                (snake' = ForwardKeys(snake, held) /\ held # {}) =>
                    snake'.currentDirection = LastHeld(held) ]_vars

\* C16, amended: in one ProcessInput call in state ACTIVE the held direction keys are
\* forwarded to SetDirection in the order UP, DOWN, LEFT, RIGHT and the last one that
\* SetDirection accepts wins: for every set of held direction keys and every reachable
\* snake state, currentDirection after the call is the last held key in that order that
\* is not the reverse of the direction last moved in (of the first held key, if the snake
\* has not moved yet), and it is unchanged when no held key is accepted; body and
\* growNextMove are unchanged.
C16_LastAcceptedKeyWins ==
    State = "GAME_ACTIVE" =>
        \A held \in SUBSET DirectionKeys :
            LET after == ForwardKeys(snake, held)
                accepted == AcceptedKeys(snake, held)
            IN  /\ after.currentDirection =
                       IF accepted = {} THEN snake.currentDirection
                       ELSE LastHeld(accepted)
                /\ after.body = snake.body
                /\ after.growNextMove = snake.growNextMove

\* a ProcessInput has turned a snake that was moving
C16_Witness ==
    /\ lastOp[1] = "ProcessInput"
    /\ State = "GAME_ACTIVE"
    /\ snake.lastMovedDirection \in Cardinal
    /\ snake.currentDirection \in Cardinal \ {snake.lastMovedDirection}
    /\ Len(snake.body) > 3

-----------------------------------------------------------------------------
(* C17 *)

\* C17: Move() is a no-op when currentDirection == STOPPED: the body, currentDirection,
\* lastMovedDirection and growNextMove are all unchanged, whatever they are; so before
\* the first direction input every ACTIVE Update leaves the snake and the food where
\* they are and the state ACTIVE.
C17_StoppedMoveIsNoOp ==
    /\ [] \A last \in Direction, grow \in BOOLEAN :
              LET stopped == [snake EXCEPT !.currentDirection = "STOPPED",
                                           !.lastMovedDirection = last,
                                           !.growNextMove = grow]
              IN  /\ Move(stopped).body = snake.body
                  /\ Move(stopped).currentDirection = "STOPPED"
                  /\ Move(stopped).lastMovedDirection = last
                  /\ Move(stopped).growNextMove = grow
    /\ [][ ( /\ lastOp'[1] = "Update"
            /\ State = "GAME_ACTIVE"
            /\ snake.currentDirection = "STOPPED" ) =>
               /\ snake' = snake
               /\ food' = food
               /\ State' = "GAME_ACTIVE" ]_vars

\* an Update has run in a new life before any direction input
C17_Witness ==
    /\ lastOp = <<"Update", "-">>
    /\ State = "GAME_ACTIVE"
    /\ snake.currentDirection = "STOPPED"
    /\ snake.lastMovedDirection = "STOPPED"

-----------------------------------------------------------------------------
(* C18 *)

-----------------------------------------------------------------------------
(* C19 *)

\* the cells of the board grid
BoardCells ==
    { Position(i * DefaultSegmentSize, j * DefaultSegmentSize) :
          i \in 0 .. (Width \div DefaultSegmentSize) - 1,
          j \in 0 .. (Height \div DefaultSegmentSize) - 1 }

FreeCells == BoardCells \ Cells(snake.body)

\* C19: with a fair random source GenerateNewPosition(snakeBody) eventually returns
\* whenever at least one grid cell of the board is not occupied by snakeBody; it keeps
\* retrying, and never returns, only when snakeBody occupies every cell.
C19_ReturnsUnlessBoardFull ==
    /\ (FreeCells # {}) ~> (pc = "returned" /\ food \in FreeCells)
    /\ [] (FreeCells = {} => pc = "while")
    /\ [] (pc # "while" => FreeCells # {})

\* the call has returned for a body that leaves a single cell free
C19_Witness ==
    /\ pc = "returned"
    /\ Cardinality(FreeCells) = 1
    /\ food \in FreeCells

-----------------------------------------------------------------------------
(* C20 *)

\* C20: in every reachable state of the game (any sequence of Init, ProcessInput, Update,
\* Reset) the snake body is non-empty and has at least 3 segments, and within one life,
\* that is by any operation but a reset, the body length is never reduced.
C20_AtLeastThreeSegments ==
    /\ [] (snake.body # << >> /\ Len(snake.body) >= 3)
    /\ [][ lastOp' # <<"ProcessInput", "ResetGame">> =>
               Len(snake'.body) >= Len(snake.body) ]_vars

\* a snake that has grown has just been moved by an Update with no growth pending
C20_Witness ==
    /\ lastOp = <<"Update", "-">>
    /\ applied \in Cardinal
    /\ growCalls = 0
    /\ Len(snake.body) > 3

-----------------------------------------------------------------------------
(* C21 *)

\* p and q differ by exactly one segSize in exactly one coordinate and by 0 in the other
GridAdjacent(p, q, segSize) ==
    \/ (p.y = q.y /\ (p.x - q.x = segSize \/ q.x - p.x = segSize))
    \/ (p.x = q.x /\ (p.y - q.y = segSize \/ q.y - p.y = segSize))

\* C21: in every reachable state, including after growth, every pair of consecutive body
\* segments is grid-adjacent: they differ by exactly one segmentSize in exactly one
\* coordinate and by 0 in the other.
C21_ConsecutiveSegmentsAdjacent ==
    \A i \in 1 .. Len(snake.body) - 1 :
        GridAdjacent(snake.body[i], snake.body[i + 1], snake.segmentSize)

\* a snake that has grown and turned: its body is longer than 3 and bends
C21_Witness ==
    /\ lastOp[1] = "Move"
    /\ Len(snake.body) > 3
    /\ \E i, j \in 1 .. Len(snake.body) :
           /\ snake.body[i].x # snake.body[j].x
           /\ snake.body[i].y # snake.body[j].y

-----------------------------------------------------------------------------
(* C22 *)

-----------------------------------------------------------------------------
(* C23 *)

\* 1 if growth is pending, else 0
Pending(s) == IF s.growNextMove THEN 1 ELSE 0

\* the parts of C23 that do not depend on what the tick of a food hit does to the length:
\* an Update of a snake with growth pending lengthens it by exactly 1, no Update changes
\* the length by more than 1, and body length = 3 + food hits of this life - pending
GrowthLedger ==
    /\ [][ (lastOp'[1] = "Update" /\ State = "GAME_ACTIVE" /\ snake.growNextMove) =>
               Len(snake'.body) = Len(snake.body) + 1 ]_vars
    /\ [][ lastOp'[1] = "Update" =>
               Len(snake'.body) - Len(snake.body) \in {-1, 0, 1} ]_vars
    /\ [][ lastOp' = <<"Update", "food">> => foodHits' = foodHits + 1 ]_vars
    /\ [] (Len(snake.body) = 3 + foodHits - Pending(snake))

\* C23 as stated: an Update whose move lands the head on the food leaves the body length
\* unchanged in that tick and the length grows by exactly 1 on the next Update; no Update
\* changes the length by more than 1; and in every reachable state body length =
\* 3 + (number of food hits in this life) - (1 if growNextMove is set, else 0).
C23_HitTickKeepsLength ==
    /\ [][ lastOp' = <<"Update", "food">> =>
               Len(snake'.body) = Len(snake.body) ]_vars
    /\ GrowthLedger

\* C23, amended: an Update whose move lands the head on the food adds no segment for that
\* food in that tick (the length is unchanged, or grows by exactly 1 when growth from the
\* previous hit was still pending) and sets growNextMove, and the length grows by exactly
\* 1 on the next Update; no Update changes the length by more than 1; and in every
\* reachable state body length = 3 + (number of food hits in this life) - (1 if
\* growNextMove is set, else 0).
C23_GrowthAccounting ==
    /\ [][ lastOp' = <<"Update", "food">> =>
               /\ Len(snake'.body) = Len(snake.body) + Pending(snake)
               /\ snake'.growNextMove ]_vars
    /\ GrowthLedger

\* the second food of a life has just been eaten: four segments and growth pending
C23_Witness ==
    /\ lastOp = <<"Update", "food">>
    /\ foodHits = 2
    /\ Len(snake.body) = 4
    /\ snake.growNextMove

-----------------------------------------------------------------------------
(* C24 *)

\* C24: in every state observable between operations (after Init, after each
\* ProcessInput, after each Update, after each Reset) the food position is not equal
\* to any segment of the snake body, not only immediately after a regeneration.
C24_FoodNeverOnBody ==
    \A i \in 1 .. Len(snake.body) : snake.body[i] # food

\* an Update without a food hit has moved a snake that has eaten before and the head is
\* now next to the food
C24_Witness ==
    /\ lastOp = <<"Update", "-">>
    /\ applied \in Cardinal
    /\ foodHits >= 1
    /\ GridAdjacent(front(snake.body), food, snake.segmentSize)

-----------------------------------------------------------------------------
(* C25 *)

\* C25: an Update in which the head lands on the food never ends the game in that same
\* tick: whenever the food branch of Update runs, the self-collision check and the wall
\* check of that Update are both false and the state stays ACTIVE.
C25_FoodTickNeverEndsGame ==
    [][ lastOp' = <<"Update", "food">> =>
            /\ State = "GAME_ACTIVE"
            /\ ~HeadOnBody(snake'.body)
            /\ ~OutOfBounds(front(snake'.body), snake'.segmentSize, Width, Height)
            /\ State' = "GAME_ACTIVE" ]_vars

\* food has just been eaten in the last column by a snake that had grown before
C25_Witness ==
    /\ lastOp = <<"Update", "food">>
    /\ State = "GAME_ACTIVE"
    /\ front(snake.body).x + snake.segmentSize = Width
    /\ Len(snake.body) > 3

-----------------------------------------------------------------------------
(* C26 *)

\* C26: moving the head into the cell that the tail occupies before the move is a
\* collision only when the snake is growing: if growNextMove is false the tail is removed
\* in the same Move and CheckSelfCollision() is false afterwards (the state stays ACTIVE
\* unless the wall check fires), and if growNextMove is true the tail is kept and
\* CheckSelfCollision() is true, so that Update sets the state to OVER.
C26_TailCellCollidesOnlyWhenGrowing ==
    [][ ( /\ lastOp'[1] = "Update"
          /\ State = "GAME_ACTIVE"
          /\ snake.currentDirection \in Cardinal
          /\ front(snake'.body) = snake.body[Len(snake.body)] ) =>
            IF snake.growNextMove
            THEN /\ Len(snake'.body) = Len(snake.body) + 1
                 /\ snake'.body[Len(snake'.body)] = snake.body[Len(snake.body)]
                 /\ HeadOnBody(snake'.body)
                 /\ CheckSelfCollision(snake')
                 /\ State' = "GAME_OVER"
            ELSE /\ Len(snake'.body) = Len(snake.body)
                 /\ snake'.body[Len(snake'.body)] = snake.body[Len(snake.body) - 1]
                 /\ ~HeadOnBody(snake'.body)
                 /\ ~CheckSelfCollision(snake')
                 /\ State' = "GAME_OVER" <=>
                        OutOfBounds(front(snake'.body), snake'.segmentSize, Width, Height)
      ]_vars

\* a growing snake has moved its head into the cell of its tail: the tail is still there
\* and the game is over
C26_Witness ==
    /\ lastOp = <<"Update", "-">>
    /\ State = "GAME_OVER"
    /\ Len(snake.body) = 5
    /\ snake.body[1] = snake.body[5]
    /\ Distinct(SubSeq(snake.body, 1, 4))

-----------------------------------------------------------------------------
(* C27 *)

\* C27: within one life of the game, once currentDirection has become a cardinal
\* direction it never becomes STOPPED again (only a reset restores STOPPED); so from the
\* first accepted direction input on, every ACTIVE Update moves the head by exactly one
\* cell in currentDirection, and no input pauses the snake.
C27_NeverStopsAgain ==
    /\ [][ (snake.currentDirection \in Cardinal /\ lastOp' # <<"ProcessInput", "ResetGame">>) =>
               snake'.currentDirection \in Cardinal ]_vars
    /\ [][ (snake'.currentDirection = "STOPPED" /\ snake.currentDirection # "STOPPED") =>
               lastOp' = <<"ProcessInput", "ResetGame">> ]_vars
    /\ [][ ( /\ lastOp'[1] = "Update"
            /\ State = "GAME_ACTIVE"
            /\ snake.currentDirection \in Cardinal ) =>
               /\ front(snake'.body) =
                      Plus(front(snake.body), Step(snake.currentDirection, snake.segmentSize))
               /\ GridAdjacent(front(snake'.body), front(snake.body), snake.segmentSize) ]_vars
    /\ [] \A held \in SUBSET DirectionKeys :
              (State = "GAME_ACTIVE" /\ snake.currentDirection \in Cardinal) =>
                  ForwardKeys(snake, held).currentDirection \in Cardinal

\* a ProcessInput has run on a snake that has moved: the game is active and the snake
\* still has a cardinal direction
C27_Witness ==
    /\ lastOp = <<"ProcessInput", "-">>
    /\ State = "GAME_ACTIVE"
    /\ applied \in Cardinal
    /\ snake.currentDirection = applied

====
